---- MODULE Spec2Model ----
(***************************************************************************)
(* A model of unrpyc.py: the archive reader (read_ast_from_file), the      *)
(* per-file pipeline (decompile_rpyc, extract_translations, worker) and    *)
(* the orchestrator and aggregator in main.                                *)
(*                                                                         *)
(* Paths are pairs <<stem, suffix>>; the directory is <<"d", "">>.  A file *)
(* of the file system is a tuple: <<"absent">>, <<"in", key>> (an input    *)
(* file whose bytes are FileBytes(key)), <<"old">> (an output left by an   *)
(* earlier run), <<"open">> (truncated by open('w'), nothing written),     *)
(* <<"text", mode, ast>> (a finished output), <<"partial", mode, ast>>     *)
(* (the formatter raised half way), <<"mixed">> (two writers overlapped),  *)
(* <<"pickle", dialogue, strings, language>> (a translation file),         *)
(* <<"raw", bytes>> (an input file given by its bytes).  Log lines are     *)
(* strings.  None is <<>> where the value is a path, a list or a           *)
(* dictionary, and "None" where it is a string.                            *)
(***************************************************************************)
EXTENDS Integers, Sequences, FiniteSets, TLC

VARIABLES
    args,          \* the parsed command line (argparse namespace)
    fs,            \* the file system: path -> file
    fs0,           \* the file system when the run started (history)
    pc,            \* position of main
    worklist,      \* main's worklist: sequence of paths
    tasks,         \* one record per worker call: position, Context, locals
    pool,          \* TRUE when main took the Pool branch
    results,       \* main's results list: sequence of Contexts
    collected,     \* history: the worklist index each entry of results came from
    mi,            \* index of the merge loop over results
    translated_dialogue,
    translated_strings,
    ai,            \* index of the aggregation loop over results
    state_count,   \* the SummaryCounts dictionary
    printed,       \* the lines printed by the aggregation loop
    writers,       \* history: output path -> the tasks that opened it for writing
    raw_contents,  \* the bytes given to read_ast_from_file when it runs by itself
    read_result    \* what that call gave

vars == <<args, fs, fs0, pc, worklist, tasks, pool, results, collected, mi,
          translated_dialogue, translated_strings, ai, state_count, printed, writers,
          raw_contents, read_result>>

----------------------------------------------------------------------------
(* Bounds of the model *)

\* the largest worklist a run of the model dispatches
MaxTasks == 6

\* worklists up to this length take the sequential branch
PoolThreshold == 5

\* the longest list of results the merge loop is run on by itself
MaxResults == 2

\* the most 12-byte records after the magic in the files read_ast_from_file is
\* run on by itself
MaxCells == 3

----------------------------------------------------------------------------
(* Paths *)

Dir == <<"d", "">>

Stems == {"a", "b", "c"}

InSuffixes == {".rpyc", ".rpymc"}

OutSuffixes == {".rpy", ".rpym", ".txt"}

InPaths == Stems \X InSuffixes

OutPaths == Stems \X OutSuffixes

TranslationPath == <<"tl", ".bin">>

\* the files -t may name: a translation file, a file that is no pickle, and
\* a path with no file
GoodTranslations == <<"good", ".bin">>

JunkTranslations == <<"junk", ".bin">>

NoTranslations == <<"gone", ".bin">>

TranslationInputs == {GoodTranslations, JunkTranslations, NoTranslations}

Paths == InPaths \cup OutPaths \cup {TranslationPath} \cup TranslationInputs

Absent == <<"absent">>

suffix(p) == p[2]

with_suffix(p, ext) == <<p[1], ext>>

exists(f, p) == p \in DOMAIN f /\ f[p] # Absent

----------------------------------------------------------------------------
(* The bytes of the input files *)

\* a zlib stream that inflates to a pickle of the statements `ast`
Blob(ast) == [zlib |-> TRUE, py2 |-> FALSE, pickle |-> TRUE, ast |-> ast]

\* the same, written by the older pickle dialect
Py2Blob(ast) == [zlib |-> TRUE, py2 |-> TRUE, pickle |-> TRUE, ast |-> ast]

\* a zlib stream whose content the safe unpickler rejects
BadPickle == [zlib |-> TRUE, py2 |-> FALSE, pickle |-> FALSE, ast |-> "none"]

\* bytes that are no zlib stream (also the empty slice)
Garbage == [zlib |-> FALSE, py2 |-> FALSE, pickle |-> FALSE, ast |-> "none"]

\* byte ranges (start, length) a slot record can name; "r0" lies outside the file
Regions == {"r0", "r1", "r2"}

NoBlobs == [r \in Regions |-> Garbage]

\* raw_contents: whether it starts with the magic, the 12-byte records that
\* follow byte 10 up to the end of the file (a last group of fewer than 12
\* bytes is no record), the content of each byte range, the content of the
\* whole file, and st_size
V1(blob, size) ==
    [magic |-> FALSE, cells |-> <<>>, blobs |-> NoBlobs, whole |-> blob, size |-> size]

V2(cells, b1, b2, size) ==
    [magic |-> TRUE, cells |-> cells,
     blobs |-> [r \in Regions |-> IF r = "r1" THEN b1 ELSE IF r = "r2" THEN b2 ELSE Garbage],
     whole |-> Garbage, size |-> size]

FileKeys == {"v2_ok", "v2_ok2", "v2_swapped", "v2_noslot1", "v2_truncated",
             "v2_noterm", "v2_badzlib", "v2_badpickle", "v2_badast",
             "v1_ok", "v1_badzlib", "v2_py2"}

FileBytes(key) ==
    CASE key = "v2_ok"        -> V2(<<<<1, "r1">>, <<2, "r2">>, <<0, "r0">>>>, Blob("ast1"), Garbage, 5)
      [] key = "v2_ok2"       -> V2(<<<<1, "r1">>, <<0, "r0">>>>, Blob("ast2"), Garbage, 3)
      [] key = "v2_swapped"   -> V2(<<<<2, "r2">>, <<1, "r1">>, <<0, "r0">>>>, Blob("ast1"), Garbage, 5)
      [] key = "v2_noslot1"   -> V2(<<<<2, "r2">>, <<0, "r0">>>>, Garbage, Blob("ast1"), 4)
      [] key = "v2_truncated" -> V2(<<>>, Garbage, Garbage, 1)
      [] key = "v2_noterm"    -> V2(<<<<1, "r1">>, <<2, "r2">>>>, Blob("ast1"), Garbage, 4)
      [] key = "v2_badzlib"   -> V2(<<<<1, "r0">>, <<0, "r0">>>>, Blob("ast1"), Garbage, 2)
      [] key = "v2_badpickle" -> V2(<<<<1, "r1">>, <<0, "r0">>>>, BadPickle, Garbage, 3)
      [] key = "v2_badast"    -> V2(<<<<1, "r1">>, <<0, "r0">>>>, Blob("astX"), Garbage, 3)
      [] key = "v2_py2"       -> V2(<<<<1, "r1">>, <<0, "r0">>>>, Py2Blob("ast2"), Garbage, 2)
      [] key = "v1_ok"        -> V1(Py2Blob("ast1"), 2)
      [] key = "v1_badzlib"   -> V1(Garbage, 1)

\* the bytes of a file of the file system: of <<"in", key>>, or of
\* <<"raw", bytes>>, which holds them itself
BytesOf(file) == IF file[1] = "raw" THEN file[2] ELSE FileBytes(file[2])

st_size(f, p) == BytesOf(f[p]).size

----------------------------------------------------------------------------
(* read_ast_from_file *)

NoExc == "none"

SlotWarning == "Warning: Encountered an unexpected slot structure."

LegacyWarning(version) ==
    IF version = "6" THEN "Warning: generated by ren'py version 6 or below"
    ELSE "Warning: generated by ren'py version 7 or below"

\* a loop that files each chunk under the slot id it expected
RECURSIVE WalkSlots_by_position(_, _, _, _, _)
WalkSlots_by_position(raw, k, chunks, have_errored, log) ==
    IF k > Len(raw.cells)
    THEN [exc |-> "struct.error", chunks |-> chunks, log |-> log]
    ELSE LET slot == raw.cells[k][1]
             region == raw.cells[k][2]
             warn == slot # k /\ ~have_errored
         IN  IF slot = 0
             THEN [exc |-> NoExc, chunks |-> chunks, log |-> log]
             ELSE WalkSlots_by_position(raw, k + 1,
                            [s \in DOMAIN chunks \cup {k} |->
                                IF s = k THEN raw.blobs[region] ELSE chunks[s]],
                            have_errored \/ warn,
                            IF warn THEN Append(log, SlotWarning) ELSE log)

\* a loop that never sets have_errored
RECURSIVE WalkSlots_warn_every(_, _, _, _, _)
WalkSlots_warn_every(raw, k, chunks, have_errored, log) ==
    IF k > Len(raw.cells)
    THEN [exc |-> "struct.error", chunks |-> chunks, log |-> log]
    ELSE LET slot == raw.cells[k][1]
             region == raw.cells[k][2]
             warn == slot # k /\ ~have_errored
         IN  IF slot = 0
             THEN [exc |-> NoExc, chunks |-> chunks, log |-> log]
             ELSE WalkSlots_warn_every(raw, k + 1,
                            [s \in DOMAIN chunks \cup {slot} |->
                                IF s = slot THEN raw.blobs[region] ELSE chunks[s]],
                            FALSE,
                            IF warn THEN Append(log, SlotWarning) ELSE log)

\* the loop over the slot table; record k is read at position 10 + 12 (k - 1)
\* and expected_slot is k
RECURSIVE WalkSlots(_, _, _, _, _)
WalkSlots(raw, k, chunks, have_errored, log) ==
    IF k > Len(raw.cells)
    THEN \* struct.unpack on fewer than 12 bytes
         [exc |-> "struct.error", chunks |-> chunks, log |-> log]
    ELSE LET slot == raw.cells[k][1]
             region == raw.cells[k][2]
             warn == slot # k /\ ~have_errored
         IN  IF slot = 0
             THEN [exc |-> NoExc, chunks |-> chunks, log |-> log]
             ELSE WalkSlots(raw, k + 1,
                            [s \in DOMAIN chunks \cup {slot} |->
                                IF s = slot THEN raw.blobs[region] ELSE chunks[s]],
                            have_errored \/ warn,
                            IF warn THEN Append(log, SlotWarning) ELSE log)

EmptyChunks == [s \in {} |-> Garbage]

\* a reader that gives up on a file of an older version
read_ast_legacy_fatal(raw) ==
    LET walk == IF raw.magic THEN WalkSlots(raw, 1, EmptyChunks, FALSE, <<>>)
                ELSE [exc |-> NoExc, chunks |-> EmptyChunks, log |-> <<>>]
        is_rpyc_v1 == ~raw.magic
        failed(e) == [exc |-> e, ast |-> "none", log |-> walk.log]
    IN  IF walk.exc # NoExc THEN failed(walk.exc)
        ELSE IF raw.magic /\ 1 \notin DOMAIN walk.chunks THEN failed("BadRpycException")
        ELSE LET contents == IF is_rpyc_v1 THEN raw.whole ELSE walk.chunks[1]
             IN  IF ~contents.zlib THEN failed("BadRpycException")
                 ELSE IF is_rpyc_v1 \/ contents.py2 THEN failed("BadRpycException")
                 ELSE IF ~contents.pickle
                      THEN [exc |-> "UnpicklingError", ast |-> "none", log |-> walk.log]
                      ELSE [exc |-> NoExc, ast |-> contents.ast, log |-> walk.log]

\* the statements, or the exception raised, and the lines logged on the way
read_ast_from_file(raw) ==
    LET walk == IF raw.magic THEN WalkSlots(raw, 1, EmptyChunks, FALSE, <<>>)
                ELSE [exc |-> NoExc, chunks |-> EmptyChunks, log |-> <<>>]
        is_rpyc_v1 == ~raw.magic
        failed(e) == [exc |-> e, ast |-> "none", log |-> walk.log]
    IN  IF walk.exc # NoExc THEN failed(walk.exc)
        ELSE IF raw.magic /\ 1 \notin DOMAIN walk.chunks THEN failed("BadRpycException")
        ELSE LET contents == IF is_rpyc_v1 THEN raw.whole ELSE walk.chunks[1]
             IN  IF ~contents.zlib THEN failed("BadRpycException")
                 ELSE LET log2 == IF is_rpyc_v1 \/ contents.py2
                                  THEN Append(walk.log,
                                              LegacyWarning(IF is_rpyc_v1 THEN "6" ELSE "7"))
                                  ELSE walk.log
                      IN  IF ~contents.pickle
                          THEN [exc |-> "UnpicklingError", ast |-> "none", log |-> log2]
                          ELSE [exc |-> NoExc, ast |-> contents.ast, log |-> log2]

----------------------------------------------------------------------------
(* Context *)

Context == [log_contents |-> <<>>, state |-> "None", value |-> <<>>]

log(context, message) ==
    [context EXCEPT !.log_contents = Append(@, message)]

set_state(context, state) == [context EXCEPT !.state = state]

set_result(context, value) == [context EXCEPT !.value = value]

RECURSIVE log_all(_, _)
log_all(context, messages) ==
    IF messages = <<>> THEN context
    ELSE log_all(log(context, Head(messages)), Tail(messages))

----------------------------------------------------------------------------
(* decompile_rpyc, extract_translations and worker, one step at a time.    *)
(* A task is one call of worker: its position, its arguments and locals.   *)
(* Every step takes the arguments, the task and the file system and gives  *)
(* the task and the file system after the step.                            *)

NewTask(filename) ==
    [pc |-> "idle", filename |-> filename, context |-> Context,
     out_filename |-> filename, ast |-> "none", opened |-> FALSE]

\* the extension table of decompile_rpyc
ext(dump, input_filename) ==
    IF dump THEN ".txt"
    ELSE IF suffix(input_filename) = ".rpyc" THEN ".rpy"
    ELSE ".rpym"

out_filename(dump, input_filename) == with_suffix(input_filename, ext(dump, input_filename))

\* a worker that also takes the unpickler's errors for header errors
except_state_any_read_error(exc) ==
    IF exc \in {"BadRpycException", "UnpicklingError"} THEN "spoofed" ELSE "fail"

\* a worker without the `except Exception` clause
except_state_header_only(exc) ==
    IF exc = "BadRpycException" THEN "spoofed" ELSE "raise"

\* which except clause of worker takes the exception: the state it sets,
\* or "raise" when no clause matches and the exception leaves worker
except_state(exc) ==
    IF exc = "BadRpycException" THEN "spoofed" ELSE "fail"

\* the except clauses of worker, then `return context`
worker_except(t, exc) ==
    LET state == except_state(exc)
    IN  IF state = "raise" THEN [t EXCEPT !.pc = "raised"]
        ELSE [t EXCEPT !.pc = "done",
                       !.context = log_all(set_state(@, state),
                            <<IF state = "spoofed"
                              THEN "Error while trying to read the header"
                              ELSE "Error while decompiling",
                              exc>>)]

\* pickle_loads(args.translations) raises on bytes that are no pickle
pickle_loads_raises(bytes) == bytes[1] # "pickle"

\* a decompile_rpyc that reads the input before it looks for the output
worker_begin_read_first(a, t, f) ==
    IF a.write_translation_file
    THEN [task |-> [t EXCEPT !.pc = "extract",
                             !.context = log(@, "Extracting translations")],
          fs |-> f]
    ELSE IF a.translation_file # <<>> /\ pickle_loads_raises(a.translations)
    THEN [task |-> worker_except(t, "UnpicklingError"), fs |-> f]
    ELSE LET out == out_filename(a.dump, t.filename)
             c1 == log(t.context, "Decompiling")
         IN  IF ~a.clobber /\ exists(f, out)
             THEN [task |-> [t EXCEPT !.pc = "done", !.out_filename = out, !.opened = TRUE,
                                      !.context = set_result(set_state(
                                          log(c1, "Target file exists already! Skipping."),
                                          "skip"), <<>>)],
                   fs |-> f]
             ELSE [task |-> [t EXCEPT !.pc = "read", !.out_filename = out, !.context = c1],
                   fs |-> f]

\* worker up to the call it makes, and decompile_rpyc up to the existence
\* check (extract_translations up to its log line)
worker_begin(a, t, f) ==
    IF a.write_translation_file
    THEN [task |-> [t EXCEPT !.pc = "extract",
                             !.context = log(@, "Extracting translations")],
          fs |-> f]
    ELSE IF a.translation_file # <<>> /\ pickle_loads_raises(a.translations)
    THEN [task |-> worker_except(t, "UnpicklingError"), fs |-> f]
    ELSE LET out == out_filename(a.dump, t.filename)
             c1 == log(t.context, "Decompiling")
         IN  IF ~a.clobber /\ exists(f, out)
             THEN [task |-> [t EXCEPT !.pc = "done", !.out_filename = out,
                                      !.context = set_result(set_state(
                                          log(c1, "Target file exists already! Skipping."),
                                          "skip"), <<>>)],
                   fs |-> f]
             ELSE [task |-> [t EXCEPT !.pc = "read", !.out_filename = out, !.context = c1],
                   fs |-> f]

\* deobfuscate.read_ast: the statements the standard reader gives, or an
\* error when none of its strategies finds any
deobfuscate_read_ast(raw) ==
    LET r == read_ast_from_file(raw)
    IN  IF r.exc = NoExc THEN r ELSE [r EXCEPT !.exc = "ValueError"]

\* a decompile_rpyc that opens the output before it reads the input
worker_read_output_first(a, t, f) ==
    LET r == IF a.try_harder THEN deobfuscate_read_ast(BytesOf(f[t.filename]))
             ELSE read_ast_from_file(BytesOf(f[t.filename]))
        t1 == [t EXCEPT !.opened = TRUE, !.context = log_all(@, r.log)]
        f1 == [f EXCEPT ![t.out_filename] = <<"open">>]
    IN  IF r.exc # NoExc
        THEN [task |-> worker_except(t1, r.exc), fs |-> f1]
        ELSE [task |-> [t1 EXCEPT !.pc = "open_out", !.ast = r.ast], fs |-> f1]

\* decompile_rpyc: open the input and read the AST
worker_read(a, t, f) ==
    LET r == IF a.try_harder THEN deobfuscate_read_ast(BytesOf(f[t.filename]))
             ELSE read_ast_from_file(BytesOf(f[t.filename]))
        t1 == [t EXCEPT !.opened = TRUE, !.context = log_all(@, r.log)]
    IN  IF r.exc # NoExc
        THEN [task |-> worker_except(t1, r.exc), fs |-> f]
        ELSE [task |-> [t1 EXCEPT !.pc = "open_out", !.ast = r.ast], fs |-> f]

\* a decompile_rpyc that sets 'ok' when it has opened the output
worker_open_out_sets_ok(a, t, f) ==
    [task |-> [t EXCEPT !.pc = "render", !.context = set_state(@, "ok")],
     fs |-> [f EXCEPT ![t.out_filename] = <<"open">>]]

\* decompile_rpyc: open the output for writing, which creates or truncates it
worker_open_out(a, t, f) ==
    [task |-> [t EXCEPT !.pc = "render"],
     fs |-> [f EXCEPT ![t.out_filename] = <<"open">>]]

\* the dump formatter and the reverse-compiler raise on these statements
pprint_raises(ast) == ast = "astX"

\* what the options make of the text written for the same statements
mode(a) ==
    IF a.dump
    THEN CASE a.comparable /\ a.no_pyexpr -> "dump,comparable,no_pyexpr"
           [] a.comparable /\ ~a.no_pyexpr -> "dump,comparable"
           [] ~a.comparable /\ a.no_pyexpr -> "dump,no_pyexpr"
           [] OTHER -> "dump"
    ELSE CASE a.translation_file # <<>> /\ a.sl_custom_names # <<>> -> "rpy,translated,sl"
           [] a.translation_file # <<>> /\ a.sl_custom_names = <<>> -> "rpy,translated"
           [] a.translation_file = <<>> /\ a.sl_custom_names # <<>> -> "rpy,sl"
           [] OTHER -> "rpy"

\* a decompile_rpyc that returns without setting a state
worker_render_no_state(a, t, f, mixed) ==
    IF pprint_raises(t.ast)
    THEN [task |-> worker_except(t, "PipelineError"),
          fs |-> [f EXCEPT ![t.out_filename] =
                     IF mixed THEN <<"mixed">> ELSE <<"partial", mode(a), t.ast>>]]
    ELSE [task |-> [t EXCEPT !.pc = "done", !.context = set_result(@, <<>>)],
          fs |-> [f EXCEPT ![t.out_filename] =
                     IF mixed THEN <<"mixed">> ELSE <<"text", mode(a), t.ast>>]]

\* decompile_rpyc: dump or reverse-compile into the output, close it, set 'ok';
\* `mixed` says that another writer of the same path overlapped this one
worker_render(a, t, f, mixed) ==
    IF pprint_raises(t.ast)
    THEN [task |-> worker_except(t, "PipelineError"),
          fs |-> [f EXCEPT ![t.out_filename] =
                     IF mixed THEN <<"mixed">> ELSE <<"partial", mode(a), t.ast>>]]
    ELSE [task |-> [t EXCEPT !.pc = "done",
                             !.context = set_result(set_state(@, "ok"), <<>>)],
          fs |-> [f EXCEPT ![t.out_filename] =
                     IF mixed THEN <<"mixed">> ELSE <<"text", mode(a), t.ast>>]]

\* extract_translations: opens the input and calls read_ast_from_file with
\* one argument, where the function takes two
worker_extract(a, t, f) ==
    [task |-> worker_except([t EXCEPT !.opened = TRUE], "TypeError"), fs |-> f]

\* the next step of a task that runs alone
worker_step(a, t, f) ==
    CASE t.pc = "idle"     -> worker_begin(a, t, f)
      [] t.pc = "read"     -> worker_read(a, t, f)
      [] t.pc = "open_out" -> worker_open_out(a, t, f)
      [] t.pc = "render"   -> worker_render(a, t, f, FALSE)
      [] t.pc = "extract"  -> worker_extract(a, t, f)

\* worker(arg_tup) run from its first line to its return
RECURSIVE worker(_, _, _)
worker(a, t, f) ==
    IF t.pc \in {"done", "raised"} THEN [task |-> t, fs |-> f]
    ELSE LET r == worker_step(a, t, f) IN worker(a, r.task, r.fs)

----------------------------------------------------------------------------
(* parse_sl_custom_names *)

\* A registration string is given split: the sequence of its parts between
\* the "=" signs, each part the sequence of its pieces between the "-" signs.

bad_registration(argument) ==
    \/ Len(argument) # 2
    \/ Len(argument[2]) > 2
    \/ Len(argument[2]) = 2 /\ argument[2][2] \notin {"0", "1", "many"}

amount_of(split) ==
    IF Len(split) = 1 THEN <<"str", "many">>
    ELSE CASE split[2] = "0" -> <<"int", 0>>
           [] split[2] = "1" -> <<"int", 1>>
           [] OTHER -> <<"str", "many">>

\* {classname: (name, nchildren)}, the later registration of a class name
\* replacing the earlier; raises on the first string it cannot parse
parse_sl_custom_names(unparsed_arguments) ==
    IF \E k \in 1..Len(unparsed_arguments) : bad_registration(unparsed_arguments[k])
    THEN [exc |-> "Exception", value |-> <<>>]
    ELSE LET classnames == {unparsed_arguments[k][1] : k \in 1..Len(unparsed_arguments)}
             last(c) == CHOOSE k \in 1..Len(unparsed_arguments) :
                            /\ unparsed_arguments[k][1] = c
                            /\ \A j \in (k + 1)..Len(unparsed_arguments) :
                                   unparsed_arguments[j][1] # c
         IN  [exc |-> NoExc,
              value |-> [c \in classnames |->
                            <<unparsed_arguments[last(c)][2][1],
                              amount_of(unparsed_arguments[last(c)][2])>>]]

----------------------------------------------------------------------------
(* main: building the worklist *)

\* the order in which iterdir lists the directory
DirOrder ==
    <<<<"a", ".rpyc">>, <<"a", ".rpy">>, <<"b", ".rpymc">>, <<"c", ".rpyc">>,
      <<"c", ".txt">>, <<"a", ".rpymc">>, <<"b", ".rpyc">>, <<"c", ".rpymc">>>>

RECURSIVE Concat(_)
Concat(seqs) == IF seqs = <<>> THEN <<>> ELSE Head(seqs) \o Concat(Tail(seqs))

Map(Op(_), seq) == [i \in 1..Len(seq) |-> Op(seq[i])]

IsFile(f, p) == p # Dir /\ exists(f, p)

glob_or_complain(f, inpath) ==
    IF inpath = Dir \/ exists(f, inpath) THEN <<inpath>> ELSE <<>>

traverse(f, inpath) ==
    LET own(p) == IF IsFile(f, p) /\ suffix(p) \in {".rpyc", ".rpymc"} THEN <<p>> ELSE <<>>
    IN  IF inpath = Dir
        THEN Concat(Map(own, SelectSeq(DirOrder, LAMBDA p : exists(f, p))))
        ELSE own(inpath)

\* the three nested loops that fill the worklist
collect_worklist(f, files) ==
    LET per_entry(entry) ==
            Concat(Map(LAMBDA globitem : traverse(f, globitem), glob_or_complain(f, entry)))
    IN  Concat(Map(per_entry, files))

\* list.sort(key = st_size, reverse = True): stable, largest first
RECURSIVE sort_by_size(_, _)
sort_by_size(f, wl) ==
    IF wl = <<>> THEN <<>>
    ELSE LET rest == sort_by_size(f, SubSeq(wl, 1, Len(wl) - 1))
             x == wl[Len(wl)]
             before == SelectSeq(rest, LAMBDA y : st_size(f, y) >= st_size(f, x))
             after == SelectSeq(rest, LAMBDA y : st_size(f, y) < st_size(f, x))
         IN  before \o <<x>> \o after

----------------------------------------------------------------------------
(* The runs of the model *)

Processes == {1, 4}

ZeroCounts == [total |-> 0, ok |-> 0, fail |-> 0, skip |-> 0, spoofed |-> 0]

EmptyDict == [k \in {} |-> "v"]

MakeFs(files, pre) ==
    [p \in Paths |->
        IF p \in InPaths THEN (IF files[p] = "-" THEN Absent ELSE <<"in", files[p]>>)
        ELSE IF p = GoodTranslations THEN <<"pickle", <<>>, <<>>, "fr">>
        ELSE IF p = JunkTranslations THEN <<"old">>
        ELSE IF p \in pre THEN <<"old">> ELSE Absent]

\* three files in the directory, the first of any kind
SmallFiles(k) ==
    [p \in InPaths |->
        CASE p = <<"a", ".rpyc">>  -> k
          [] p = <<"b", ".rpymc">> -> "v2_ok2"
          [] p = <<"c", ".rpyc">>  -> "v2_ok"
          [] OTHER -> "-"]

\* all six files in the directory
LargeFiles(k) ==
    [p \in InPaths |->
        CASE p = <<"a", ".rpyc">>  -> k
          [] p = <<"a", ".rpymc">> -> "v2_ok2"
          [] p = <<"b", ".rpymc">> -> "v2_badast"
          [] p = <<"b", ".rpyc">>  -> "v2_py2"
          [] p = <<"c", ".rpyc">>  -> "v2_ok"
          [] p = <<"c", ".rpymc">> -> "v2_truncated"]

\* five files in the directory
FiveFiles(k) == [LargeFiles(k) EXCEPT ![<<"c", ".rpymc">>] = "-"]

NoFiles == [p \in InPaths |-> "-"]

ArgPaths == {Dir, <<"a", ".rpyc">>, <<"z", ".rpyc">>}

Argvs == {<<x>> : x \in ArgPaths} \cup {<<x, y>> : x \in ArgPaths, y \in ArgPaths}

Pres == {{}, {<<"c", ".rpy">>, <<"c", ".txt">>, TranslationPath}}

Scenarios ==
    {[files |-> SmallFiles(k), pre |-> pre, argv |-> <<Dir>>] :
        k \in FileKeys, pre \in Pres}
    \cup {[files |-> SmallFiles("v2_swapped"), pre |-> pre, argv |-> argv] :
        pre \in Pres, argv \in Argvs}
    \cup {[files |-> LargeFiles(k), pre |-> {<<"c", ".rpy">>, <<"c", ".txt">>}, argv |-> argv] :
        k \in {"v2_ok", "v2_badzlib"}, argv \in {<<Dir>>, <<Dir, <<"a", ".rpyc">>>>}}
    \cup {[files |-> FiveFiles("v2_ok"), pre |-> {}, argv |-> <<Dir>>]}
    \cup {[files |-> SmallFiles(k), pre |-> {<<"a", ".rpy">>, <<"a", ".txt">>},
           argv |-> <<Dir>>] : k \in {"v2_badzlib", "v2_badpickle", "v2_truncated"}}
    \cup {[files |-> NoFiles, pre |-> {}, argv |-> <<Dir>>]}

\* the registration strings "cls=disp-1" "box=grid", "cls=disp-2", "cls"
\* and "cls=a-b-c"
Registrations ==
    {<<>>,
     << <<<<"cls">>, <<"disp", "1">>>>, <<<<"box">>, <<"grid">>>> >>,
     << <<<<"box">>, <<"grid">>>>, <<<<"cls">>, <<"disp", "2">>>> >>,
     << <<<<"cls">>>> >>,
     << <<<<"cls">>, <<"a", "b", "c">>>> >>}

\* the options left at their defaults
NoOptions ==
    [comparable |-> FALSE, no_pyexpr |-> FALSE, try_harder |-> FALSE,
     translation_file |-> <<>>, language |-> "None", sl_custom_names |-> <<>>]

Options ==
    [comparable : BOOLEAN, no_pyexpr : BOOLEAN, try_harder : BOOLEAN,
     translation_file : {<<>>} \cup TranslationInputs, language : {"None", "fr"},
     sl_custom_names : Registrations]

\* the namespace parse_args returns
Namespace(file, dump, clobber, processes, wt, opt) ==
    [file |-> file, dump |-> dump, clobber |-> clobber, processes |-> processes,
     write_translation_file |-> wt, comparable |-> opt.comparable,
     no_pyexpr |-> opt.no_pyexpr, try_harder |-> opt.try_harder,
     translation_file |-> opt.translation_file, language |-> opt.language,
     sl_custom_names |-> opt.sl_custom_names, translations |-> <<>>]

\* the runs on which every combination of the options is tried
OptionScenarios ==
    {[files |-> SmallFiles(k), pre |-> pre, argv |-> <<Dir>>] :
        k \in {"v2_truncated"}, pre \in Pres}
    \cup {[files |-> NoFiles, pre |-> {}, argv |-> <<Dir>>]}

Init ==
    \E sc \in Scenarios \cup OptionScenarios, dump \in BOOLEAN, clobber \in BOOLEAN,
       processes \in Processes, wt \in BOOLEAN, opt \in Options :
        /\ opt # NoOptions => (sc \in OptionScenarios /\ processes = 1)
        /\ Len(collect_worklist(MakeFs(sc.files, sc.pre), sc.argv)) <= MaxTasks
        /\ args = Namespace(sc.argv, dump, clobber, processes, wt, opt)
        /\ fs = MakeFs(sc.files, sc.pre)
        /\ fs0 = fs
        /\ pc = "preflight"
        /\ worklist = <<>>
        /\ tasks = <<>>
        /\ pool = FALSE
        /\ results = <<>>
        /\ collected = <<>>
        /\ mi = 1
        /\ translated_dialogue = EmptyDict
        /\ translated_strings = EmptyDict
        /\ ai = 1
        /\ state_count = ZeroCounts
        /\ printed = <<>>
        /\ writers = [p \in OutPaths |-> {}]
        /\ raw_contents = <<>>
        /\ read_result = <<>>

----------------------------------------------------------------------------
(* main, step by step *)

\* checks that let an existing translation output be overwritten
preflight_error_no_exists_check(a, f) ==
    \/ (a.no_pyexpr \/ a.comparable) /\ ~a.dump
    \/ /\ a.try_harder \/ a.dump
       /\ a.write_translation_file \/ a.translation_file # <<>> \/ a.language # "None"

\* the checks of the argument combinations, before any file is looked at
preflight_error(a, f) ==
    \/ (a.no_pyexpr \/ a.comparable) /\ ~a.dump
    \/ /\ a.try_harder \/ a.dump
       /\ a.write_translation_file \/ a.translation_file # <<>> \/ a.language # "None"
    \/ a.write_translation_file /\ ~a.clobber /\ exists(f, TranslationPath)

\* main from the checks to the parsed registrations: where it goes on, and
\* the namespace it goes on with
check_args(a, f) ==
    IF preflight_error(a, f) THEN [pc |-> "usage_error", args |-> a]
    ELSE IF a.translation_file # <<>> /\ ~exists(f, a.translation_file)
    THEN [pc |-> "io_error", args |-> a]
    ELSE LET a1 == IF a.translation_file # <<>>
                   THEN [a EXCEPT !.translations = f[a.translation_file]] ELSE a
             parsed == parse_sl_custom_names(a1.sl_custom_names)
         IN  IF a1.sl_custom_names = <<>> THEN [pc |-> "collect", args |-> a1]
             ELSE IF parsed.exc # NoExc THEN [pc |-> "sl_error", args |-> a1]
             ELSE [pc |-> "collect", args |-> [a1 EXCEPT !.sl_custom_names = parsed.value]]

Preflight ==
    /\ pc = "preflight"
    /\ pc' = check_args(args, fs).pc
    /\ args' = check_args(args, fs).args
    /\ UNCHANGED <<fs, fs0, worklist, tasks, pool, results, collected, mi,
                   translated_dialogue, translated_strings, ai, state_count,
                   printed, writers, raw_contents, read_result>>

\* a main that takes the Pool branch on the length of the worklist alone
use_pool_any_width(a, wl) == Len(wl) > PoolThreshold

\* whether main takes the Pool branch
use_pool(a, wl) == a.processes > 1 /\ Len(wl) > PoolThreshold

BuildWorklist ==
    /\ pc = "collect"
    /\ LET found == collect_worklist(fs, args.file)
           sorted == sort_by_size(fs, found)
       IN  IF found = <<>>
           THEN /\ pc' = "no_files"
                /\ UNCHANGED <<worklist, tasks, pool, state_count>>
           ELSE /\ pc' = "run"
                /\ worklist' = sorted
                /\ tasks' = Map(NewTask, sorted)
                /\ pool' = use_pool(args, sorted)
                /\ state_count' = [state_count EXCEPT !.total = Len(found)]
    /\ UNCHANGED <<args, fs, fs0, results, collected, mi, translated_dialogue,
                   translated_strings, ai, printed, writers, raw_contents, read_result>>

Running(i) == tasks[i].pc \notin {"idle", "done", "raised"}

\* imap hands the entries to the workers in order, one per free worker; map
\* calls worker on an entry when the result before it has been appended
may_start(i) ==
    /\ tasks[i].pc = "idle"
    /\ \A j \in 1..(i - 1) : tasks[j].pc # "idle"
    /\ IF pool
       THEN Cardinality({j \in 1..Len(tasks) : Running(j)}) < args.processes
       ELSE Len(results) = i - 1

TaskFrame == UNCHANGED <<args, fs0, pc, worklist, pool, results, collected, mi,
                         translated_dialogue, translated_strings, ai,
                         state_count, printed, raw_contents, read_result>>

Begin(i) ==
    /\ pc = "run"
    /\ may_start(i)
    /\ LET r == worker_begin(args, tasks[i], fs)
       IN  /\ tasks' = [tasks EXCEPT ![i] = r.task]
           /\ fs' = r.fs
    /\ UNCHANGED writers
    /\ TaskFrame

Read(i) ==
    /\ pc = "run"
    /\ tasks[i].pc = "read"
    /\ LET r == worker_read(args, tasks[i], fs)
       IN  /\ tasks' = [tasks EXCEPT ![i] = r.task]
           /\ fs' = r.fs
    /\ UNCHANGED writers
    /\ TaskFrame

OpenOut(i) ==
    /\ pc = "run"
    /\ tasks[i].pc = "open_out"
    /\ LET r == worker_open_out(args, tasks[i], fs)
       IN  /\ tasks' = [tasks EXCEPT ![i] = r.task]
           /\ fs' = r.fs
    /\ writers' = [writers EXCEPT ![tasks[i].out_filename] = @ \cup {i}]
    /\ TaskFrame

\* another process wrote to the path while this task had it open
overlapped(i) ==
    \/ \E j \in 1..Len(tasks) :
          j # i /\ tasks[j].pc = "render" /\ tasks[j].out_filename = tasks[i].out_filename
    \/ fs[tasks[i].out_filename] # <<"open">>

Render(i) ==
    /\ pc = "run"
    /\ tasks[i].pc = "render"
    /\ \E mixed \in (IF overlapped(i) THEN BOOLEAN ELSE {FALSE}) :
        LET r == worker_render(args, tasks[i], fs, mixed)
        IN  /\ tasks' = [tasks EXCEPT ![i] = r.task]
            /\ fs' = r.fs
    /\ UNCHANGED writers
    /\ TaskFrame

Extract(i) ==
    /\ pc = "run"
    /\ tasks[i].pc = "extract"
    /\ LET r == worker_extract(args, tasks[i], fs)
       IN  /\ tasks' = [tasks EXCEPT ![i] = r.task]
           /\ fs' = r.fs
    /\ UNCHANGED writers
    /\ TaskFrame

Range(seq) == {seq[k] : k \in 1..Len(seq)}

\* imap_unordered: the results come as the workers finish
next_result_unordered(col, ts) ==
    LET ready == {i \in 1..Len(ts) : i \notin Range(col) /\ ts[i].pc = "done"}
    IN  IF ready = {} THEN Len(col) + 1 ELSE CHOOSE i \in ready : TRUE

\* the entry whose result the loop over map / imap appends next
next_result(col, ts) == Len(col) + 1

\* results.append(result); an exception that left worker is raised here
Collect ==
    /\ pc = "run"
    /\ Len(results) < Len(tasks)
    /\ LET i == next_result(collected, tasks)
       IN  /\ tasks[i].pc \in {"done", "raised"}
           /\ IF tasks[i].pc = "raised"
              THEN pc' = "crashed" /\ UNCHANGED <<results, collected>>
              ELSE /\ results' = Append(results, tasks[i].context)
                   /\ collected' = Append(collected, i)
                   /\ pc' = IF Len(results') < Len(tasks) THEN "run"
                            ELSE IF args.write_translation_file THEN "merge"
                            ELSE "aggregate"
    /\ UNCHANGED <<args, fs, fs0, worklist, tasks, pool, mi, translated_dialogue,
                   translated_strings, ai, state_count, printed, writers, raw_contents, read_result>>

----------------------------------------------------------------------------
(* main: the translation merge *)

\* dict.update
update(d, e) ==
    [k \in DOMAIN d \cup DOMAIN e |-> IF k \in DOMAIN e THEN e[k] ELSE d[k]]

\* the pickle of a dictionary: its items, one after the other
RECURSIVE pickle_safe_dumps(_)
pickle_safe_dumps(d) ==
    IF DOMAIN d = {} THEN <<>>
    ELSE LET k == CHOOSE x \in DOMAIN d : TRUE
         IN  <<<<k, d[k]>>>> \o pickle_safe_dumps([x \in DOMAIN d \ {k} |-> d[x]])

\* the dictionary a pickle of items builds, item by item
RECURSIVE pickle_loads(_)
pickle_loads(items) ==
    IF items = <<>> THEN EmptyDict
    ELSE LET last == items[Len(items)]
         IN  update(pickle_loads(SubSeq(items, 1, Len(items) - 1)),
                    [k \in {last[1]} |-> last[2]])

\* a merge that keeps the value a key already has
merge_result_first_wins(dialogue, strings, result) ==
    IF result.value = <<>>
    THEN [dialogue |-> dialogue, strings |-> strings]
    ELSE [dialogue |-> update(pickle_loads(result.value[1]), dialogue),
          strings |-> update(result.value[2], strings)]

\* one turn of the loop over results
merge_result(dialogue, strings, result) ==
    IF result.value = <<>>
    THEN [dialogue |-> dialogue, strings |-> strings]
    ELSE [dialogue |-> update(dialogue, pickle_loads(result.value[1])),
          strings |-> update(strings, result.value[2])]

MergeStep ==
    /\ pc = "merge"
    /\ mi <= Len(results)
    /\ LET m == merge_result(translated_dialogue, translated_strings, results[mi])
       IN  /\ translated_dialogue' = m.dialogue
           /\ translated_strings' = m.strings
    /\ mi' = mi + 1
    /\ UNCHANGED <<args, fs, fs0, pc, worklist, tasks, pool, results, collected, ai,
                   state_count, printed, writers, raw_contents, read_result>>

\* a main that writes the file before the loop over results is through
WriteTranslations_early ==
    /\ pc = "merge"
    /\ fs' = [fs EXCEPT ![TranslationPath] =
                 <<"pickle", pickle_safe_dumps(translated_dialogue),
                   pickle_safe_dumps(translated_strings), args.language>>]
    /\ pc' = "aggregate"
    /\ UNCHANGED <<args, fs0, worklist, tasks, pool, results, collected, mi,
                   translated_dialogue, translated_strings, ai, state_count,
                   printed, writers, raw_contents, read_result>>

WriteTranslations ==
    /\ pc = "merge"
    /\ mi > Len(results)
    /\ fs' = [fs EXCEPT ![TranslationPath] =
                 <<"pickle", pickle_safe_dumps(translated_dialogue),
                   pickle_safe_dumps(translated_strings), args.language>>]
    /\ pc' = "aggregate"
    /\ UNCHANGED <<args, fs0, worklist, tasks, pool, results, collected, mi,
                   translated_dialogue, translated_strings, ai, state_count,
                   printed, writers, raw_contents, read_result>>

----------------------------------------------------------------------------
(* main: the aggregation loop and the report *)

AggregateStep ==
    /\ pc = "aggregate"
    /\ ai <= Len(results)
    /\ LET res_inst == results[ai]
       IN  IF res_inst.state \in DOMAIN state_count
           THEN /\ state_count' = [state_count EXCEPT ![res_inst.state] = @ + 1]
                /\ printed' = printed \o
                       [k \in 1..Len(res_inst.log_contents) |->
                           <<collected[ai], res_inst.log_contents[k]>>]
                /\ ai' = ai + 1
                /\ pc' = pc
           ELSE \* KeyError
                /\ pc' = "crashed"
                /\ UNCHANGED <<state_count, printed, ai>>
    /\ UNCHANGED <<args, fs, fs0, worklist, tasks, pool, results, collected, mi,
                   translated_dialogue, translated_strings, writers, raw_contents, read_result>>

Report ==
    /\ pc = "aggregate"
    /\ ai > Len(results)
    /\ pc' = "done"
    /\ UNCHANGED <<args, fs, fs0, worklist, tasks, pool, results, collected, mi,
                   translated_dialogue, translated_strings, ai, state_count,
                   printed, writers, raw_contents, read_result>>

Next ==
    \/ Preflight
    \/ BuildWorklist
    \/ \E i \in 1..Len(tasks) : Begin(i)
    \/ \E i \in 1..Len(tasks) : Read(i)
    \/ \E i \in 1..Len(tasks) : OpenOut(i)
    \/ \E i \in 1..Len(tasks) : Render(i)
    \/ \E i \in 1..Len(tasks) : Extract(i)
    \/ Collect
    \/ MergeStep
    \/ WriteTranslations
    \/ AggregateStep
    \/ Report

Spec == Init /\ [][Next]_vars

----------------------------------------------------------------------------
(* What the claims speak about *)

Finished == pc \in {"merge", "aggregate", "done"}

Decompiling == ~args.write_translation_file

\* what read_ast_from_file does on the bytes task i was given
ReadOf(i) == read_ast_from_file(FileBytes(fs0[worklist[i]][2]))

\* the worklist run by worker, one entry after the other, from file system f
RECURSIVE sequential_run(_, _, _)
sequential_run(a, wl, f) ==
    IF wl = <<>> THEN [fs |-> f, results |-> <<>>]
    ELSE LET before == sequential_run(a, SubSeq(wl, 1, Len(wl) - 1), f)
             r == worker(a, NewTask(wl[Len(wl)]), before.fs)
         IN  [fs |-> r.fs, results |-> Append(before.results, r.task.context)]

CountOf(res, state) == Cardinality({k \in 1..Len(res) : res[k].state = state})

CountsOf(res) ==
    [total |-> Len(res), ok |-> CountOf(res, "ok"), fail |-> CountOf(res, "fail"),
     skip |-> CountOf(res, "skip"), spoofed |-> CountOf(res, "spoofed")]

\* C1 (as claimed): a finished run, of width 1 or of width 4, has the counts
\* and the output files that running the worklist one file after the other
\* from the same file system gives.
C1_SameAsSequential ==
    pc = "done" =>
        LET seq == sequential_run(args, worklist, fs0)
        IN  /\ state_count = CountsOf(seq.results)
            /\ \A p \in OutPaths : fs[p] = seq.fs[p]

\* the container of the file is malformed: the slot table ends early, slot 1
\* is missing, or the selected bytes are no zlib stream
MalformedArchive(raw) ==
    \/ raw.magic /\ WalkSlots(raw, 1, EmptyChunks, FALSE, <<>>).exc # NoExc
    \/ raw.magic /\ 1 \notin DOMAIN WalkSlots(raw, 1, EmptyChunks, FALSE, <<>>).chunks
    \/ raw.magic /\ ~WalkSlots(raw, 1, EmptyChunks, FALSE, <<>>).chunks[1].zlib
    \/ ~raw.magic /\ ~raw.whole.zlib

RawOf(i) == FileBytes(fs0[worklist[i]][2])

WellFormed(i) == ReadOf(i).exc = NoExc /\ ~pprint_raises(ReadOf(i).ast)

\* C2 (as claimed): a task that read a file with a malformed container ends
\* 'spoofed'; and a run over three files, one valid, one malformed, one with
\* its output already there and overwrite off, counts total 3, ok 1,
\* spoofed 1, skip 1, fail 0.
C2_MalformedIsSpoofed ==
    /\ \A i \in 1..Len(tasks) :
          (Decompiling /\ tasks[i].pc = "done" /\ tasks[i].opened
              /\ MalformedArchive(RawOf(i)))
          => tasks[i].context.state = "spoofed"
    /\ (/\ pc = "done" /\ Decompiling /\ ~args.clobber /\ Len(worklist) = 3
         /\ \E x, y, z \in 1..3 :
               /\ {x, y, z} = 1..3
               /\ WellFormed(x) /\ ~exists(fs0, out_filename(args.dump, worklist[x]))
               /\ MalformedArchive(RawOf(y))
               /\ ~exists(fs0, out_filename(args.dump, worklist[y]))
               /\ exists(fs0, out_filename(args.dump, worklist[z])))
        => state_count = [total |-> 3, ok |-> 1, fail |-> 0, skip |-> 1, spoofed |-> 1]

\* the container is well formed and inflates, and the safe unpickler rejects
\* the payload
PayloadRejected(i) == ~MalformedArchive(RawOf(i)) /\ ReadOf(i).exc = "UnpicklingError"

C4_OneWriterPerOutput ==
    /\ \A i, j \in 1..Len(worklist) :
          i # j => out_filename(args.dump, worklist[i]) # out_filename(args.dump, worklist[j])
    /\ \A p \in OutPaths : Cardinality(writers[p]) <= 1

\* C5 (as claimed): every input file the path arguments lead to is the
\* argument of exactly one worker call.
C5_EachFileOnce ==
    \A p \in InPaths :
        Cardinality({i \in 1..Len(tasks) : tasks[i].filename = p}) <= 1

OutOf(i) == out_filename(args.dump, tasks[i].filename)

\* decompile_rpyc has been called in the task and has logged its first line
InDecompile(t) == t.context.log_contents # <<>> /\ t.context.log_contents[1] = "Decompiling"

\* C6: a task that enters decompile_rpyc ends 'skip' exactly by the step
\* that finds its output path existing with overwrite off; that step changes
\* no file, and a task in state 'skip' has never opened its input nor its
\* output.
C6_SkipBeforeAnyWork ==
    [][\A i \in 1..Len(tasks) :
          /\ (tasks[i].pc = "idle" /\ tasks'[i].pc # "idle" /\ InDecompile(tasks'[i]))
                => (tasks'[i].context.state = "skip"
                      <=> (~args.clobber /\ exists(fs, OutOf(i))))
          /\ (tasks[i].context.state # "skip" /\ tasks'[i].context.state = "skip")
                => (fs' = fs /\ tasks[i].pc = "idle" /\ tasks'[i].pc = "done")
          /\ tasks'[i].context.state = "skip"
                => (~tasks'[i].opened /\ \A p \in OutPaths : i \notin writers'[p])
      ]_vars

C6_Witness ==
    \E i \in 1..Len(tasks) :
        /\ tasks[i].context.state = "skip"
        /\ fs[tasks[i].out_filename] = <<"old">>
        /\ ~tasks[i].opened

\* C7: no exception of a file leaves its worker: main never stops on one,
\* a run that is under way can always take a step, and after the loop over
\* the workers results holds one Context per worklist entry, each the
\* Context of a finished task.
C7_FailuresAreIsolated ==
    /\ pc # "crashed"
    /\ \A i \in 1..Len(tasks) : tasks[i].pc # "raised"
    /\ pc = "run" =>
          \/ \E i \in 1..Len(tasks) : Running(i) \/ may_start(i)
          \/ tasks[Len(collected) + 1].pc = "done"
    /\ Finished =>
          /\ Len(results) = Len(worklist)
          /\ \A i \in 1..Len(worklist) :
                Cardinality({k \in 1..Len(collected) : collected[k] = i}) = 1
          /\ \A k \in 1..Len(results) :
                /\ tasks[collected[k]].pc = "done"
                /\ results[k] = tasks[collected[k]].context
                /\ results[k].state \in {"ok", "fail", "skip", "spoofed"}

C7_Witness ==
    /\ pc = "done"
    /\ \E i, j, k \in 1..Len(results) :
          /\ results[i].state = "fail" /\ ReadOf(collected[i]).exc = "struct.error"
          /\ results[j].state = "fail" /\ tasks[collected[j]].ast = "astX"
          /\ results[k].state = "ok" /\ k > j

IsPrefixOfIdentity(col) == \A k \in 1..Len(col) : col[k] = k

\* the lines a Context prints, each with the worklist index of its file
RECURSIVE LinesOf(_)
LinesOf(n) ==
    IF n = 0 THEN <<>>
    ELSE LinesOf(n - 1) \o [k \in 1..Len(tasks[n].context.log_contents) |->
                                <<n, tasks[n].context.log_contents[k]>>]

\* C8: the worklist is the files found, largest first; results are appended
\* in worklist order whatever the order in which the tasks finish; and the
\* printed log is the logs of the Contexts one after the other in that order.
C8_SubmissionOrder ==
    /\ IsPrefixOfIdentity(collected)
    /\ \A k \in 1..Len(results) : results[k] = tasks[k].context
    /\ \A i \in 1..(Len(worklist) - 1) :
          st_size(fs0, worklist[i]) >= st_size(fs0, worklist[i + 1])
    /\ pc = "done" =>
          LET found == collect_worklist(fs0, args.file)
          IN  \A p \in InPaths :
                Cardinality({i \in 1..Len(worklist) : worklist[i] = p})
                  = Cardinality({i \in 1..Len(found) : found[i] = p})
    /\ pc \in {"aggregate", "done"} =>
          /\ printed = LinesOf(ai - 1)
          /\ \A x \in 1..(Len(printed) - 1) : printed[x][1] <= printed[x + 1][1]

\* a later entry has finished while an earlier one has not, and the run ends
\* with the lines of both printed
C8_Witness ==
    /\ pool
    /\ \E i, j \in 1..Len(tasks) :
          /\ i < j /\ tasks[j].pc = "done" /\ tasks[i].pc \notin {"idle", "done"}
          /\ Len(collected) = i - 1
          /\ st_size(fs0, worklist[i]) > st_size(fs0, worklist[j])

\* C9 (as claimed): in translation-extraction mode every well-formed input
\* gives a Context with a translation bundle as its result.
C9_BundlePerFile ==
    (Finished /\ args.write_translation_file) =>
        \A k \in 1..Len(results) :
            ReadOf(collected[k]).exc = NoExc => results[k].value # <<>>

States == {"ok", "fail", "skip", "spoofed"}

\* C11: the translation file changes in one step of a run only: a step of
\* main, taken in translation-extraction mode when every worker has
\* returned, every result is in results and the loop over results is
\* through; main does not come back to the merge, and no step after it
\* writes any file.  A run of that mode that ends has written the file.
C11_OneTranslationWrite ==
    [][/\ fs'[TranslationPath] # fs[TranslationPath] =>
             /\ pc = "merge" /\ pc' = "aggregate"
             /\ args.write_translation_file
             /\ \A i \in 1..Len(tasks) : tasks[i].pc = "done"
             /\ Len(results) = Len(worklist)
             /\ mi > Len(results)
             /\ \A p \in Paths \ {TranslationPath} : fs'[p] = fs[p]
       /\ pc' = "merge" => pc \in {"run", "merge"}
       /\ pc \in {"aggregate", "done"} => fs' = fs
       /\ (pc' = "done" /\ args.write_translation_file) =>
             fs'[TranslationPath][1] = "pickle"
      ]_vars

\* a run over three files that replaced the translation file of an earlier run
C11_Witness ==
    /\ pc = "done" /\ args.write_translation_file
    /\ Len(results) = 3
    /\ fs0[TranslationPath] = <<"old">>
    /\ fs[TranslationPath][1] = "pickle"

\* "classname=name" or "classname=name-arity", arity one of 0, 1, many
WellFormedRegistration(argument) ==
    /\ Len(argument) = 2
    /\ Len(argument[2]) \in {1, 2}
    /\ Len(argument[2]) = 2 => argument[2][2] \in {"0", "1", "many"}

\* one of the argument errors main looks for before it looks for files
ArgumentError ==
    \/ (args.comparable \/ args.no_pyexpr) /\ ~args.dump
    \/ args.try_harder /\ (args.write_translation_file \/ args.translation_file # <<>>
                               \/ args.language # "None")
    \/ args.dump /\ (args.write_translation_file \/ args.translation_file # <<>>
                         \/ args.language # "None")
    \/ args.write_translation_file /\ ~args.clobber /\ fs[TranslationPath] # Absent
    \/ \E k \in 1..Len(args.sl_custom_names) :
          ~WellFormedRegistration(args.sl_custom_names[k])

Stopped == pc \in {"usage_error", "io_error", "sl_error", "no_files"}

\* C12: with one of the argument errors main stops at its checks, and with
\* no input file found it stops after the search; a stopped run takes no
\* further step, has called no worker and collected no result, has the file
\* system it started with, and has every count at zero.
C12_PreflightErrorsStopTheRun ==
    [][/\ (pc = "preflight" /\ ArgumentError) => Stopped'
       /\ (pc = "collect" /\ \A p \in InPaths : p \notin Range(collect_worklist(fs, args.file)))
             => pc' = "no_files"
       /\ Stopped' =>
             /\ tasks' = <<>> /\ results' = <<>> /\ worklist' = <<>>
             /\ fs' = fs0
             /\ \A p \in OutPaths : writers'[p] = {}
             /\ state_count' = ZeroCounts
       /\ ~Stopped
      ]_vars

\* a run stopped on a registration string, with input files in the directory
C12_Witness ==
    /\ pc = "sl_error"
    /\ fs[<<"a", ".rpyc">>] # Absent
    /\ args.clobber
    /\ fs = fs0 /\ state_count = ZeroCounts

LastLines(ctx, n) == SubSeq(ctx.log_contents, Len(ctx.log_contents) - n + 1,
                            Len(ctx.log_contents))

\* C14: the step that formats the statements ends 'fail', with the
\* 'Error while decompiling' line and the trace last in the log, when the
\* formatter raises, and 'ok' with the output closed when it returns; a
\* state becomes 'ok' by that step only, in a task that has its statements
\* and has opened its output; a finished task that has its statements is
\* 'ok' or 'fail'.
C14_PipelineErrorIsFail ==
    [][\A i \in 1..Len(tasks) :
          /\ (tasks[i].pc = "render" /\ tasks'[i].pc # "render") =>
                IF pprint_raises(tasks[i].ast)
                THEN /\ tasks'[i].context.state = "fail"
                     /\ LastLines(tasks'[i].context, 2)
                          = <<"Error while decompiling", "PipelineError">>
                ELSE /\ tasks'[i].context.state = "ok"
                     /\ fs'[tasks[i].out_filename][1] \in {"text", "mixed"}
          /\ (tasks[i].context.state # "ok" /\ tasks'[i].context.state = "ok") =>
                /\ tasks[i].pc = "render" /\ tasks'[i].pc = "done"
                /\ tasks[i].ast # "none" /\ ~pprint_raises(tasks[i].ast)
                /\ i \in writers[tasks[i].out_filename]
          /\ (tasks'[i].pc = "done" /\ tasks'[i].ast # "none") =>
                /\ tasks'[i].context.state \in {"ok", "fail"}
                /\ tasks'[i].context.state = "ok" <=> ~pprint_raises(tasks'[i].ast)
      ]_vars

\* the formatter raised on the statements of a file and left a partial output
C14_Witness ==
    \E i \in 1..Len(tasks) :
        /\ tasks[i].pc = "done" /\ tasks[i].ast = "astX"
        /\ tasks[i].context.state = "fail"
        /\ fs[tasks[i].out_filename][1] = "partial"

\* C15: main took the Pool branch exactly when the width is above 1 and the
\* worklist has more than 5 entries; otherwise one worker call runs at a
\* time, and a call starts when the results of all calls before it are in
\* results.
C15_PoolOnlyWhenWideAndLong ==
    pc \in {"run", "merge", "aggregate", "done"} =>
        /\ pool <=> (args.processes > 1 /\ Len(worklist) > 5)
        /\ ~pool =>
              /\ Cardinality({i \in 1..Len(tasks) : Running(i)}) <= 1
              /\ \A i \in 1..Len(tasks) :
                    tasks[i].pc # "idle" => Len(results) >= i - 1

\* width 4 and five files: the third call runs, in the sequential branch
C15_Witness ==
    /\ pc = "run" /\ ~pool
    /\ args.processes = 4 /\ Len(worklist) = 5
    /\ Len(results) = 2 /\ Running(3)

\* C18: a state that has been set does not change, the aggregation loop
\* finds a state it can count in every result and adds one to that count and
\* to no other, and at the end of a run of any mode every state is one of
\* ok, fail, skip, spoofed, the counts are the numbers of results in each
\* state, and total is their sum and the length of the worklist.
C18_EveryContextCountedOnce ==
    [][/\ \A i \in 1..Len(tasks) :
             tasks[i].context.state # "None"
                => tasks'[i].context.state = tasks[i].context.state
       /\ pc' # "crashed"
       /\ ai' # ai =>
             /\ ai' = ai + 1
             /\ \E st \in States :
                   /\ results[ai].state = st
                   /\ state_count' = [state_count EXCEPT ![st] = @ + 1]
       /\ pc' = "done" =>
             /\ \A k \in 1..Len(results') : results'[k].state \in States
             /\ state_count' = CountsOf(results')
             /\ state_count'.total = Len(worklist')
             /\ state_count'.total = state_count'.ok + state_count'.fail
                                       + state_count'.skip + state_count'.spoofed
      ]_vars

\* a run that read a translation file ends with files in three states
C18_Witness ==
    /\ pc = "done"
    /\ args.translation_file = GoodTranslations
    /\ state_count.total = 3
    /\ state_count.ok >= 1 /\ state_count.fail >= 1 /\ state_count.skip >= 1

\* the task ended without statements: 'spoofed', or 'fail' before or while
\* the input was read
ReadFailed(t) ==
    /\ t.pc = "done" /\ t.ast = "none"
    /\ t.context.state \in {"spoofed", "fail"}

\* C19: a task opens its output for writing in the step after the one that
\* read its statements; the step that ends a task without statements
\* changes no file; such a task has opened no output, and its output path
\* holds what it held when the run started unless another task of the same
\* output path opened it.
C19_NoOutputBeforeAst ==
    [][\A i \in 1..Len(tasks) :
          /\ \A p \in OutPaths :
                (i \in writers'[p] /\ i \notin writers[p]) =>
                    /\ tasks[i].pc = "open_out" /\ tasks[i].ast # "none"
                    /\ p = tasks[i].out_filename
          /\ (fs'[OutOf(i)] # fs[OutOf(i)]) =>
                \E j \in 1..Len(tasks) :
                    /\ OutOf(j) = OutOf(i) /\ tasks[j].ast # "none"
                    /\ tasks[j].pc \in {"open_out", "render"}
          /\ (~ReadFailed(tasks[i]) /\ ReadFailed(tasks'[i])) => fs' = fs
          /\ ReadFailed(tasks'[i]) =>
                /\ \A p \in OutPaths : i \notin writers'[p]
                /\ fs'[OutOf(i)] # fs0[OutOf(i)] =>
                      \E j \in 1..Len(tasks) : j # i /\ j \in writers'[OutOf(i)]
      ]_vars

\* overwrite on, an output of an earlier run, and a file 'spoofed': the
\* output is still there
C19_Witness ==
    /\ pc = "done" /\ args.clobber /\ Decompiling
    /\ \E i \in 1..Len(tasks) :
          /\ tasks[i].context.state = "spoofed"
          /\ fs0[OutOf(i)] = <<"old">>
          /\ fs[OutOf(i)] = <<"old">>

----------------------------------------------------------------------------
(* The merge loop of main by itself, on results of every shape *)

Dicts(keys, values) == UNION {[d -> values] : d \in SUBSET keys}

\* what a worker of the translation-extraction mode returns as its result:
\* nothing, or the pickled dialogue and the strings of a file
Values ==
    {<<>>} \cup {<<pickle_safe_dumps(d), st>> :
                    d \in Dicts({"k1", "k2"}, {"a", "b"}), st \in Dicts({"s1"}, {"x", "y"})}

ResultLists == UNION {[1..n -> Values] : n \in 1..MaxResults}

InitMerge ==
    \E vs \in ResultLists :
        /\ args = Namespace(<<Dir>>, FALSE, FALSE, 1, TRUE, NoOptions)
        /\ fs = MakeFs(NoFiles, {})
        /\ fs0 = fs
        /\ pc = "merge"
        /\ worklist = <<>>
        /\ tasks = <<>>
        /\ pool = FALSE
        /\ results = [k \in 1..Len(vs) |-> set_result(Context, vs[k])]
        /\ collected = [k \in 1..Len(vs) |-> k]
        /\ mi = 1
        /\ translated_dialogue = EmptyDict
        /\ translated_strings = EmptyDict
        /\ ai = 1
        /\ state_count = ZeroCounts
        /\ printed = <<>>
        /\ writers = [p \in OutPaths |-> {}]
        /\ raw_contents = <<>>
        /\ read_result = <<>>

NextMerge == MergeStep \/ WriteTranslations

SpecMerge == InitMerge /\ [][NextMerge]_vars

\* the results merged so far that carry a bundle
Merged == {j \in 1..(mi - 1) : results[j].value # <<>>}

DialogueOf(j) == pickle_loads(results[j].value[1])

StringsOf(j) == results[j].value[2]

Latest(js) == CHOOSE j \in js : \A x \in js : x <= j

\* C10: after the results up to some index have been merged, the combined
\* dialogue and strings have exactly the keys of the bundles among them, each
\* with the value of the latest result that has the key.
C10_LastWriterWinsUnion ==
    /\ DOMAIN translated_dialogue = UNION {DOMAIN DialogueOf(j) : j \in Merged}
    /\ DOMAIN translated_strings = UNION {DOMAIN StringsOf(j) : j \in Merged}
    /\ \A key \in DOMAIN translated_dialogue :
          translated_dialogue[key]
            = DialogueOf(Latest({j \in Merged : key \in DOMAIN DialogueOf(j)}))[key]
    /\ \A key \in DOMAIN translated_strings :
          translated_strings[key]
            = StringsOf(Latest({j \in Merged : key \in DOMAIN StringsOf(j)}))[key]

\* two bundles share a key with different values, and the merge is over
C10_Witness ==
    /\ pc = "aggregate"
    /\ \E i, j \in Merged :
          /\ i < j
          /\ "k1" \in DOMAIN DialogueOf(i) \cap DOMAIN DialogueOf(j)
          /\ DialogueOf(i)["k1"] # DialogueOf(j)["k1"]
          /\ "k2" \in DOMAIN DialogueOf(i) /\ "k2" \notin DOMAIN DialogueOf(j)
          /\ translated_dialogue["k1"] = DialogueOf(j)["k1"]
          /\ translated_dialogue["k2"] = DialogueOf(i)["k2"]

----------------------------------------------------------------------------
(* read_ast_from_file by itself, on files of every shape *)

Slots == 0..2

CellSeqs == UNION {[1..n -> Slots \X Regions] : n \in 0..MaxCells}

SlotBlobs == {Blob("ast1"), Py2Blob("ast1"), BadPickle, Garbage}

OtherBlobs == {Blob("ast2"), Py2Blob("ast2"), Garbage}

RawFiles ==
    {V2(cells, b1, b2, Len(cells) + 1) :
        cells \in CellSeqs, b1 \in SlotBlobs, b2 \in OtherBlobs}
    \cup {V1(b, 1) : b \in SlotBlobs}

InitRead ==
    \E raw \in RawFiles, dump \in BOOLEAN :
        /\ args = Namespace(<<Dir>>, dump, FALSE, 1, FALSE, NoOptions)
        /\ fs = MakeFs(NoFiles, {})
        /\ fs0 = fs
        /\ pc = "reader"
        /\ worklist = <<>>
        /\ tasks = <<>>
        /\ pool = FALSE
        /\ results = <<>>
        /\ collected = <<>>
        /\ mi = 1
        /\ translated_dialogue = EmptyDict
        /\ translated_strings = EmptyDict
        /\ ai = 1
        /\ state_count = ZeroCounts
        /\ printed = <<>>
        /\ writers = [p \in OutPaths |-> {}]
        /\ raw_contents = raw
        /\ read_result = <<>>

ReadArchive ==
    /\ pc = "reader"
    /\ read_result' = read_ast_from_file(raw_contents)
    /\ pc' = "read_done"
    /\ UNCHANGED <<args, fs, fs0, worklist, tasks, pool, results, collected, mi,
                   translated_dialogue, translated_strings, ai, state_count,
                   printed, writers, raw_contents>>

NextRead == ReadArchive

SpecRead == InitRead /\ [][NextRead]_vars

\* the records of the slot table up to its terminator
Terminated(raw) == \E k \in 1..Len(raw.cells) : raw.cells[k][1] = 0

Walked(raw) ==
    IF Terminated(raw)
    THEN SubSeq(raw.cells, 1,
                (CHOOSE k \in 1..Len(raw.cells) :
                    raw.cells[k][1] = 0 /\ \A j \in 1..(k - 1) : raw.cells[j][1] # 0) - 1)
    ELSE raw.cells

HasSlot1(raw) == \E k \in 1..Len(Walked(raw)) : Walked(raw)[k][1] = 1

WellFormedV2(raw) == raw.magic /\ Terminated(raw) /\ HasSlot1(raw)

\* the byte range the table records for slot 1 (its last record, if several)
Slot1Range(raw) ==
    LET t == Walked(raw)
        k == CHOOSE x \in 1..Len(t) :
                t[x][1] = 1 /\ \A y \in (x + 1)..Len(t) : t[y][1] # 1
    IN  t[k][2]

\* C13: on a well-formed v2 archive the reader inflates and loads the bytes
\* of the range recorded for slot 1 and nothing else: the result is the
\* statements pickled there, BadRpycException when they are no zlib
\* stream, the unpickler's error when the pickle is rejected, whatever the
\* other records of the table and the other ranges hold.
C13_PayloadIsSlot1 ==
    (pc = "read_done" /\ WellFormedV2(raw_contents)) =>
        LET b == raw_contents.blobs[Slot1Range(raw_contents)]
        IN  /\ read_result.exc = (IF ~b.zlib THEN "BadRpycException"
                                  ELSE IF ~b.pickle THEN "UnpicklingError" ELSE NoExc)
            /\ read_result.ast = (IF b.zlib /\ b.pickle THEN b.ast ELSE "none")

\* slot 1 is not the first record, another slot holds other statements, and
\* the reader gave those of slot 1
C13_Witness ==
    /\ pc = "read_done" /\ WellFormedV2(raw_contents)
    /\ Len(Walked(raw_contents)) = 2
    /\ Walked(raw_contents)[1] = <<2, "r2">>
    /\ Walked(raw_contents)[2] = <<1, "r1">>
    /\ raw_contents.blobs["r2"] = Blob("ast2")
    /\ read_result.exc = NoExc /\ read_result.ast = "ast1"

Warnings(lines) == Cardinality({k \in 1..Len(lines) : lines[k] = SlotWarning})

\* the archive with the one record of slot 1, in its place, and nothing in
\* the other byte ranges
OnlySlot1(raw) ==
    [raw EXCEPT !.cells = <<<<1, Slot1Range(raw)>>, <<0, "r0">>>>,
                !.blobs = [r \in Regions |->
                              IF r = Slot1Range(raw) THEN raw.blobs[r] ELSE Garbage]]

\* C16: on a v2 file the unexpected-slot warning is logged once when some
\* record before the terminator has another id than its position, and not
\* at all otherwise; a table with a terminator is walked to it without
\* error; and when slot 1 is there the result is that of the archive with
\* slot 1 alone.
C16_MismatchWarnsOnce ==
    (pc = "read_done" /\ raw_contents.magic) =>
        /\ Warnings(read_result.log)
             = (IF \E k \in 1..Len(Walked(raw_contents)) : Walked(raw_contents)[k][1] # k
                THEN 1 ELSE 0)
        /\ Terminated(raw_contents) => read_result.exc # "struct.error"
        /\ WellFormedV2(raw_contents) =>
              /\ read_result.exc = read_ast_from_file(OnlySlot1(raw_contents)).exc
              /\ read_result.ast = read_ast_from_file(OnlySlot1(raw_contents)).ast

\* two records out of place, one warning, and the statements of slot 1
C16_Witness ==
    /\ pc = "read_done" /\ WellFormedV2(raw_contents)
    /\ Len(Walked(raw_contents)) = 2
    /\ Walked(raw_contents)[1][1] = 2
    /\ Walked(raw_contents)[2][1] = 1
    /\ Warnings(read_result.log) = 1
    /\ read_result.exc = NoExc

\* the same file with the other answer of the legacy-version detector
OtherDetection(raw) ==
    [raw EXCEPT !.blobs = [r \in Regions |-> [raw.blobs[r] EXCEPT !.py2 = ~@]],
                !.whole = [@ EXCEPT !.py2 = ~@]]

\* the payload of a v1 file in a v2 archive
AsV2(raw) == V2(<<<<1, "r1">>, <<0, "r0">>>>, raw.whole, Garbage, raw.size)

IsLegacyWarning(line) == line \in {LegacyWarning("6"), LegacyWarning("7")}

\* worker on a directory that holds this one file
WorkerOn(raw) ==
    worker(args, NewTask(<<"a", ".rpyc">>),
           [q \in Paths |-> IF q = <<"a", ".rpyc">> THEN <<"raw", raw>> ELSE Absent])

SameButWarning(x, y) ==
    /\ x.task.context.state = y.task.context.state
    /\ x.task.context.value = y.task.context.value
    /\ x.task.ast = y.task.ast
    /\ \A q \in OutPaths : x.fs[q] = y.fs[q]
    /\ SelectSeq(x.task.context.log_contents, LAMBDA l : ~IsLegacyWarning(l))
         = SelectSeq(y.task.context.log_contents, LAMBDA l : ~IsLegacyWarning(l))

\* C17: the file with the other answer of the detector, and the payload of
\* a v1 file put in a v2 archive, give the same statements or the same
\* exception, and a Context with the same state, result and output, whose
\* log differs in the version warning only.
C17_DetectionOnlyWarns ==
    pc = "read_done" =>
        /\ read_result.exc = read_ast_from_file(OtherDetection(raw_contents)).exc
        /\ read_result.ast = read_ast_from_file(OtherDetection(raw_contents)).ast
        /\ SameButWarning(WorkerOn(raw_contents), WorkerOn(OtherDetection(raw_contents)))
        /\ ~raw_contents.magic =>
              /\ read_result.exc = read_ast_from_file(AsV2(raw_contents)).exc
              /\ read_result.ast = read_ast_from_file(AsV2(raw_contents)).ast
              /\ SameButWarning(WorkerOn(raw_contents), WorkerOn(AsV2(raw_contents)))

\* a file the detector flags, read with the warning in the log
C17_Witness ==
    /\ pc = "read_done" /\ raw_contents.magic /\ WellFormedV2(raw_contents)
    /\ raw_contents.blobs[Slot1Range(raw_contents)].py2
    /\ read_result.exc = NoExc
    /\ \E k \in 1..Len(read_result.log) : read_result.log[k] = LegacyWarning("7")
    /\ WorkerOn(raw_contents).task.context.state = "ok"

====
